---- MODULE Spec2Model ----
(***************************************************************************)
(* Budget tracker (src/app.py): the User and Transaction tables, the       *)
(* Flask-Login session of each browser client and the five routes          *)
(* /register, /login, /logout, /reset and /.                               *)
(*                                                                         *)
(* Amounts are the form's float amounts counted in thousandths of a lira   *)
(* (0.01 is 10), so sums are exact.  Turkish labels are written in ASCII   *)
(* ("Gida", "Maas" for the choices spelled with Turkish letters).          *)
(*                                                                         *)
(* A user's id is the place of its row in User: ids are handed out in      *)
(* order and no row is ever deleted.  Transaction keeps its rows in the    *)
(* order they were inserted, which is the order of their dates (utcnow at  *)
(* the insert), so ORDER BY date DESC is the reverse of that order.        *)
(*                                                                         *)
(* register reads the table (line 83) and writes it (lines 89-90) in two   *)
(* steps, so that the requests of other threads can come between them;     *)
(* every other handler reads or writes the database once and is one step.  *)
(***************************************************************************)
EXTENDS Integers, Sequences, FiniteSets

VARIABLES
    User,         \* the user table: row i is the user with id i
    Transaction,  \* the transaction table, rows in insertion (date) order
    session,      \* per client, the user id Flask-Login keeps in its cookie
    inflight,     \* register requests between their lookup and their commit
    response      \* the response to the request handled last

vars == <<User, Transaction, session, inflight, response>>

\* ---------------------------------------------------------------- bounds
MaxUsers == 2
MaxTx == 2
MaxInflight == 2

\* ---------------------------------------------------------------- inputs
Clients == {"c1"}
Usernames == {"", "ayse", "veli"}
Passwords == {"", "pw1", "pw2"}

Credentials(username, password) == [username |-> username, password |-> password]

\* the RegistrationForm and LoginForm submissions tried: every pair of a name and a
\* password, then one with each field left empty; a GET carries the blank form
CredentialForms ==
    {Credentials(u, p) : u \in Usernames \ {""}, p \in Passwords \ {""}}
    \cup {Credentials("", "pw1"), Credentials("ayse", "")}

BlankCredentials == Credentials("", "")

CredentialRequests ==
    {<<"GET", BlankCredentials>>} \cup {<<"POST", f>> : f \in CredentialForms}

TxForm(title, amount, type, category) ==
    [title |-> title, amount |-> amount, transaction_type |-> type,
     category |-> category]

\* the TransactionForm submissions tried: three that validate, then the amounts
\* that do not, for both types, then one other bad field
TransactionForms ==
    { TxForm("iade", 1000000, "Gelir", "Gida"),
      TxForm("market", 300000, "Gider", "Gida"),
      TxForm("kira", 1000000, "Gider", "Kira"),
      TxForm("market", -300000, "Gider", "Gida"),
      TxForm("iade", -300000, "Gelir", "Gida"),
      TxForm("market", 0, "Gider", "Gida"),
      TxForm("iade", 0, "Gelir", "Gida"),
      TxForm("sakiz", 4, "Gider", "Gida"),
      TxForm("kitap", 300000, "Gider", "Hobi") }

BlankTransaction == TxForm("", 0, "", "")

TransactionRequests ==
    {<<"GET", BlankTransaction>>} \cup {<<"POST", f>> : f \in TransactionForms}

Anonymous == 0

\* ------------------------------------------------------------ the forms
\* NumberRange(min=0.01) of TransactionForm.amount, in thousandths
MinAmount == 10

TypeChoices == {"Gider", "Gelir"}

CategoryChoices ==
    {"Maas", "Yatirim", "Kira", "Gida", "Fatura", "Ulasim", "Eglence", "Diger"}

\* DataRequired on a StringField or SelectField: '' is rejected
DataRequired(data) == data # ""

\* mutant: NumberRange(min=0.01) left out of the amount's validators
AmountValid_NoRange(amount) == amount # 0

\* DataRequired and NumberRange(min=0.01) on the FloatField: 0.0 is falsy
AmountValid(amount) == amount # 0 /\ amount >= MinAmount

\* TransactionForm().validate_on_submit()
TransactionFormValid(method, form) ==
    /\ method = "POST"
    /\ DataRequired(form.title)
    /\ AmountValid(form.amount)
    /\ DataRequired(form.transaction_type) /\ form.transaction_type \in TypeChoices
    /\ DataRequired(form.category) /\ form.category \in CategoryChoices

\* RegistrationForm().validate_on_submit() and LoginForm().validate_on_submit()
CredentialFormValid(method, form) ==
    /\ method = "POST"
    /\ DataRequired(form.username)
    /\ DataRequired(form.password)

\* form.errors after validate_on_submit: the fields a validator rejected; a GET
\* is not validated
TransactionFormErrors(method, form) ==
    IF method # "POST" THEN {}
    ELSE {f \in {"title"} : ~DataRequired(form.title)}
         \cup {f \in {"amount"} : ~AmountValid(form.amount)}
         \cup {f \in {"transaction_type"} : form.transaction_type \notin TypeChoices}
         \cup {f \in {"category"} : form.category \notin CategoryChoices}

CredentialFormErrors(method, form) ==
    IF method # "POST" THEN {}
    ELSE {f \in {"username"} : ~DataRequired(form.username)}
         \cup {f \in {"password"} : ~DataRequired(form.password)}

\* ------------------------------------------------------ credential store
PasswordCode(password) ==
    CASE password = "pw1" -> 3
      [] password = "pw2" -> 5
      [] OTHER -> 0

\* the salted digest werkzeug computes from a salt and a password
Digest(salt, password) == (salt * 7 + PasswordCode(password) * 11) % 101

\* the salt generate_password_hash draws at random: a value no stored hash
\* carries yet
gen_salt == Len(User) + 1

\* mutant: the digest is computed without the salt that is stored
set_password_Unsalted(password) ==
    [salt |-> gen_salt, digest |-> Digest(0, password)]

\* User.set_password / generate_password_hash: the salt is kept beside the digest
set_password(password) ==
    [salt |-> gen_salt, digest |-> Digest(gen_salt, password)]

\* User.check_password / check_password_hash
check_password(hash, password) == Digest(hash.salt, password) = hash.digest

\* User.query.filter_by(username=...).first(): the id, or Anonymous (None)
FindUser(username) ==
    IF \E i \in 1..Len(User) : User[i].username = username
    THEN CHOOSE i \in 1..Len(User) :
            /\ User[i].username = username
            /\ \A j \in 1..Len(User) : User[j].username = username => i <= j
    ELSE Anonymous

\* mutant: the username column without unique=True
UniqueUsername_Off(username) == TRUE

\* unique=True of User.username, checked by the database at commit
UniqueUsername(username) == \A i \in 1..Len(User) : User[i].username # username

\* load_user: the row with the id in the session, or no identity
load_user(user_id) == IF user_id \in 1..Len(User) THEN user_id ELSE Anonymous

current_user(c) == load_user(session[c])

\* mutant: a route without @login_required
login_required_Off(c) == TRUE

\* @login_required: current_user.is_authenticated
login_required(c) == current_user(c) # Anonymous

\* login_user(user) and logout_user() on the client's session
login_user(c, user) == [session EXCEPT ![c] = user]

\* mutant: logout that leaves the session's user id in place
logout_user_Keeps(c) == session

logout_user(c) == [session EXCEPT ![c] = Anonymous]

\* ------------------------------------------------------------- responses
NoResponse == [client |-> "none", route |-> "none", status |-> "none"]

\* redirect(url_for(target))
Redirect(c, route, target) ==
    [client |-> c, route |-> route, status |-> "redirect", location |-> target]

\* LoginManager.unauthorized(): redirect to login_view, with the page asked for
Unauthorized(c, route) ==
    [client |-> c, route |-> route, status |-> "redirect", location |-> "login",
     next |-> route]

\* render_template(template, form=form, error=error)
Render(c, route, template, errors, error) ==
    [client |-> c, route |-> route, status |-> "render", template |-> template,
     errors |-> errors, error |-> error]

\* the unhandled IntegrityError of a commit that breaks unique=True
ServerError(c, route) == [client |-> c, route |-> route, status |-> "error500"]

DuplicateUsername == "Bu kullanici adi zaten alinmis."
InvalidCredentials == "Gecersiz kullanici adi veya sifre."
NoError == "none"

\* mutant: a message of its own for a username that is not in the table
LoginFailed_Tells(c, user) ==
    Render(c, "login", "login.html", {},
           IF user = Anonymous THEN "Kullanici bulunamadi." ELSE "Gecersiz sifre.")

\* the else branch of login: one message, whatever the cause
LoginFailed(c, user) == Render(c, "login", "login.html", {}, InvalidCredentials)

\* ---------------------------------------------------------------- ledger
abs(x) == IF x < 0 THEN -x ELSE x

\* mutant: the expense branch that negates is left out
SignedAmount_Unsigned(amount, type) == amount

\* index: the amount stored for a form amount and a type
SignedAmount(amount, type) == IF type = "Gider" THEN -abs(amount) ELSE amount

NewTransaction(form, user_id) ==
    [title |-> form.title,
     amount |-> SignedAmount(form.amount, form.transaction_type),
     type |-> form.transaction_type,
     category |-> form.category,
     user_id |-> user_id]

Reverse(seq) == [i \in 1..Len(seq) |-> seq[Len(seq) + 1 - i]]

OwnedBy(user_id, t) == t.user_id = user_id

\* mutant: the listing query without filter_by(user_id=...)
all_transactions_Unfiltered(user_id) == Reverse(Transaction)

\* Transaction.query.filter_by(user_id=...).order_by(Transaction.date.desc()).all()
all_transactions(user_id) ==
    Reverse(SelectSeq(Transaction, LAMBDA t : OwnedBy(user_id, t)))

\* mutant: the delete without filter_by(user_id=...)
DeleteByUser_Unfiltered(user_id) == <<>>

\* Transaction.query.filter_by(user_id=...).delete(): the rows that remain
DeleteByUser(user_id) == SelectSeq(Transaction, LAMBDA t : ~OwnedBy(user_id, t))

\* ------------------------------------------------------------ aggregator
RECURSIVE SumOfType(_, _)
\* sum(t.amount for t in all_transactions if t.type == type)
SumOfType(seq, type) ==
    IF seq = <<>> THEN 0
    ELSE (IF Head(seq).type = type THEN Head(seq).amount ELSE 0)
         + SumOfType(Tail(seq), type)

\* the place of a key in expense_by_category, an ordered dict kept as a sequence
\* of <<key, value>> pairs; 0 when the key is not in it
DictIndex(dict, key) ==
    IF \E i \in 1..Len(dict) : dict[i][1] = key
    THEN (CHOOSE i \in 1..Len(dict) : dict[i][1] = key)
    ELSE 0

\* expense_by_category[category] = value: an old key keeps its place
DictSet(dict, key, value) ==
    IF DictIndex(dict, key) = 0
    THEN Append(dict, <<key, value>>)
    ELSE [dict EXCEPT ![DictIndex(dict, key)] = <<key, value>>]

\* expense_by_category.get(category, 0)
DictValue(dict, key) ==
    IF DictIndex(dict, key) = 0 THEN 0 ELSE dict[DictIndex(dict, key)][2]

RECURSIVE ExpenseByCategory(_, _)
\* the loop over all_transactions that fills expense_by_category
ExpenseByCategory(seq, dict) ==
    IF seq = <<>> THEN dict
    ELSE LET t == Head(seq) IN
         ExpenseByCategory(Tail(seq),
            IF t.type = "Gider"
            THEN DictSet(dict, t.category, DictValue(dict, t.category) + abs(t.amount))
            ELSE dict)

\* round(v, 2) of a value in thousandths: to the nearest 10, a tie to the even one
Round2(v) ==
    LET q == abs(v) \div 10
        r == abs(v) % 10
        up == IF r > 5 \/ (r = 5 /\ q % 2 = 1) THEN 1 ELSE 0
    IN  (IF v < 0 THEN -1 ELSE 1) * (q + up) * 10

\* mutant: the signed expense sum subtracted instead of added
net_balance_Minus(total_income, total_expense) == total_income - total_expense

\* net_balance = total_income + total_expense
net_balance(total_income, total_expense) == total_income + total_expense

\* render_template('index.html', ...) for the current user's rows
IndexPage(c, user_id, errors) ==
    LET rows == all_transactions(user_id)
        total_income == SumOfType(rows, "Gelir")
        total_expense == SumOfType(rows, "Gider")
        expense_by_category == ExpenseByCategory(rows, <<>>)
    IN  [client |-> c, route |-> "index", status |-> "render", template |-> "index.html",
         errors |-> errors,
         transactions |-> rows,
         total_income |-> total_income,
         total_expense |-> abs(total_expense),
         net_balance |-> net_balance(total_income, total_expense),
         chart_labels |-> [i \in 1..Len(expense_by_category) |->
                              expense_by_category[i][1]],
         chart_data |-> [i \in 1..Len(expense_by_category) |->
                              Round2(expense_by_category[i][2])]]

Init ==
    /\ User = <<>>
    /\ Transaction = <<>>
    /\ session = [c \in Clients |-> Anonymous]
    /\ inflight = {}
    /\ response = NoResponse

\* ------------------------------------------------------------- /register
\* register up to its lookup: GET, an invalid form, a taken name, or on to commit
register(c, method, form) ==
    /\ UNCHANGED <<User, Transaction, session>>
    /\ IF CredentialFormValid(method, form)
       THEN IF FindUser(form.username) # Anonymous
            THEN /\ response' = Render(c, "register", "register.html", {},
                                       DuplicateUsername)
                 /\ UNCHANGED inflight
            ELSE /\ Len(User) + Cardinality(inflight) < MaxUsers
                 /\ Cardinality(inflight) < MaxInflight
                 /\ inflight' = inflight \cup {[client |-> c, form |-> form]}
                 /\ UNCHANGED response
       ELSE /\ response' = Render(c, "register", "register.html",
                                  CredentialFormErrors(method, form), NoError)
            /\ UNCHANGED inflight

\* register from set_password to the redirect: db.session.add and commit
register_commit(c, form) ==
    /\ [client |-> c, form |-> form] \in inflight
    /\ inflight' = inflight \ {[client |-> c, form |-> form]}
    /\ UNCHANGED <<Transaction, session>>
    /\ IF UniqueUsername(form.username)
       THEN /\ User' = Append(User, [username |-> form.username,
                                     password_hash |-> set_password(form.password)])
            /\ response' = Redirect(c, "register", "login")
       ELSE /\ UNCHANGED User
            /\ response' = ServerError(c, "register")

\* ---------------------------------------------------------------- /login
login(c, method, form) ==
    LET user == FindUser(form.username) IN
    /\ UNCHANGED <<User, Transaction, inflight>>
    /\ IF CredentialFormValid(method, form)
       THEN IF user # Anonymous
               /\ check_password(User[user].password_hash, form.password)
            THEN /\ session' = login_user(c, user)
                 /\ response' = Redirect(c, "login", "index")
            ELSE /\ UNCHANGED session
                 /\ response' = LoginFailed(c, user)
       ELSE /\ UNCHANGED session
            /\ response' = Render(c, "login", "login.html",
                                   CredentialFormErrors(method, form), NoError)

\* --------------------------------------------------------------- /logout
logout(c) ==
    /\ UNCHANGED <<User, Transaction, inflight>>
    /\ IF login_required(c)
       THEN /\ session' = logout_user(c)
            /\ response' = Redirect(c, "logout", "login")
       ELSE /\ UNCHANGED session
            /\ response' = Unauthorized(c, "logout")

\* ---------------------------------------------------------------- /reset
reset_data(c) ==
    /\ UNCHANGED <<User, session, inflight>>
    /\ IF login_required(c)
       THEN /\ Transaction' = DeleteByUser(current_user(c))
            /\ response' = Redirect(c, "reset_data", "index")
       ELSE /\ UNCHANGED Transaction
            /\ response' = Unauthorized(c, "reset_data")

\* --------------------------------------------------------------------- /
index(c, method, form) ==
    /\ UNCHANGED <<User, session, inflight>>
    /\ IF login_required(c)
       THEN IF TransactionFormValid(method, form)
            THEN /\ Len(Transaction) < MaxTx
                 /\ Transaction' = Append(Transaction,
                                          NewTransaction(form, current_user(c)))
                 /\ response' = Redirect(c, "index", "index")
            ELSE /\ UNCHANGED Transaction
                 /\ response' = IndexPage(c, current_user(c),
                                        TransactionFormErrors(method, form))
       ELSE /\ UNCHANGED Transaction
            /\ response' = Unauthorized(c, "index")

Register == \E c \in Clients, r \in CredentialRequests : register(c, r[1], r[2])

RegisterCommit == \E req \in inflight : register_commit(req.client, req.form)

Login == \E c \in Clients, r \in CredentialRequests : login(c, r[1], r[2])

Logout == \E c \in Clients : logout(c)

ResetData == \E c \in Clients : reset_data(c)

Index == \E c \in Clients, r \in TransactionRequests : index(c, r[1], r[2])

Next ==
    \/ Register
    \/ RegisterCommit
    \/ Login
    \/ Logout
    \/ ResetData
    \/ Index

Spec == Init /\ [][Next]_vars

\* ----------------------------------------------------------------- claims
RowsOf(table, user_id) ==
    {i \in 1..Len(table) : table[i].user_id = user_id}

RowsOfOthers(table, user_id) ==
    SelectSeq(table, LAMBDA t : t.user_id # user_id)

IsIndexPage(r) == r.route = "index" /\ r.status = "render"

\* C1: the list GET / (or a rejected POST /) renders for the authenticated user A
\* holds A's rows and only them: no row owned by another user is returned to A.
C1_ListOnlyOwn ==
    IsIndexPage(response) =>
       /\ session[response.client] # Anonymous
       /\ \A i \in 1..Len(response.transactions) :
             response.transactions[i].user_id = session[response.client]
       /\ Len(response.transactions)
             = Cardinality(RowsOf(Transaction, session[response.client]))

\* a page listing a user's rows while the ledger also holds another user's row
C1_Witness ==
    /\ IsIndexPage(response)
    /\ Len(response.transactions) > 0
    /\ \E i \in 1..Len(Transaction) :
          Transaction[i].user_id # response.transactions[1].user_id

\* C2: POST /reset by the authenticated user A leaves no row owned by A (A's list
\* is empty), leaves every other user's rows as they were, and answers with the
\* redirect to /, also when A had no row.
C2_ResetFrame ==
    [][\A c \in Clients :
         (session[c] # Anonymous /\ reset_data(c))
         => /\ RowsOf(Transaction', session[c]) = {}
            /\ all_transactions(session[c])' = <<>>
            /\ RowsOfOthers(Transaction', session[c])
                  = RowsOfOthers(Transaction, session[c])
            /\ response' = Redirect(c, "reset_data", "index")
      ]_vars

\* a reset has been answered and the rows of another user are still in the table
C2_Witness ==
    /\ response.route = "reset_data" /\ response.location = "index"
    /\ Len(Transaction) > 0
    /\ RowsOf(Transaction, session[response.client]) = {}

PositiveForms == {f \in TransactionForms : f.amount > 0}

\* C3: every stored row has the sign of its type: an Expense row holds -m and an
\* Income row holds m, for the magnitude m > 0 of the form it was added from.
C3_SignMatchesType ==
    \A i \in 1..Len(Transaction) :
       LET t == Transaction[i] IN
       /\ t.type = "Gider" => t.amount < 0
       /\ t.type = "Gelir" => t.amount > 0
       /\ \E f \in PositiveForms :
             /\ f.title = t.title
             /\ f.transaction_type = t.type
             /\ f.category = t.category
             /\ t.amount = (IF f.transaction_type = "Gider" THEN 0 - f.amount
                            ELSE f.amount)

\* an Expense and an Income row are stored
C3_Witness ==
    /\ \E i \in 1..Len(Transaction) :
          Transaction[i].type = "Gider" /\ Transaction[i].amount = -300000
    /\ \E i \in 1..Len(Transaction) :
          Transaction[i].type = "Gelir" /\ Transaction[i].amount = 1000000

ProtectedRoutes == {"logout", "reset_data", "index"}

\* C4: a protected route asked for by an Anonymous session is not executed: the
\* answer is the redirect to login, and the user table, the transaction table and
\* the session stay as they were.
C4_AnonymousNotExecuted ==
    [][\A c \in Clients :
         (/\ session[c] = Anonymous
          /\ \/ logout(c)
             \/ reset_data(c)
             \/ \E r \in TransactionRequests : index(c, r[1], r[2]))
         => /\ UNCHANGED <<User, Transaction, session>>
            /\ response' \in {Unauthorized(c, route) : route \in ProtectedRoutes}
      ]_vars

\* an Anonymous client was sent to login while both tables held rows
C4_Witness ==
    /\ response \in {Unauthorized(c, "reset_data") : c \in Clients}
    /\ session[response.client] = Anonymous
    /\ Len(User) > 0
    /\ Len(Transaction) > 0

NameTaken(username) == \E i \in 1..Len(User) : User[i].username = username

ValidCredentialForms ==
    {f \in CredentialForms : f.username # "" /\ f.password # ""}

Matches(i, f) ==
    /\ User[i].username = f.username
    /\ User[i].password_hash.digest = Digest(User[i].password_hash.salt, f.password)

\* C6: a login with an unknown username or with a wrong password leaves the
\* session as it was, and both are answered with one and the same page and message.
C6_LoginFailure ==
    [][response'.route = "login"
       => \A c \in Clients, f \in ValidCredentialForms :
             ((\A i \in 1..Len(User) : ~Matches(i, f)) /\ login(c, "POST", f))
             => /\ session' = session
                /\ response' = Render(c, "login", "login.html", {},
                                      InvalidCredentials)
      ]_vars

\* a login was refused while a user was registered
C6_Witness ==
    /\ response.route = "login" /\ response.status = "render"
    /\ response.error = InvalidCredentials
    /\ Len(User) > 0

\* the step is a login of client c that authenticates as the user with id v
SuccessfulLogin(c, v) ==
    \E f \in ValidCredentialForms : Matches(v, f) /\ login(c, "POST", f)

\* C7 as claimed: a session enters Authenticated(v) only from Anonymous, by a
\* successful authenticate for v, and leaves it only by logout, to Anonymous.
C7_Original ==
    [][\A c \in Clients :
         session'[c] # session[c]
         => \/ /\ session[c] = Anonymous
               /\ session'[c] \in 1..Len(User)
               /\ SuccessfulLogin(c, session'[c])
            \/ /\ session[c] # Anonymous
               /\ session'[c] = Anonymous
               /\ logout(c)
      ]_vars

\* C7 amended: a session enters Authenticated(v) only by a successful authenticate
\* for v, from Anonymous or from Authenticated(u); it becomes Anonymous only by
\* logout, and logout of an authenticated session always does that; no other
\* operation changes the session.
C7_SessionMachine ==
    [][\A c \in Clients :
         /\ session'[c] # session[c]
            => \/ /\ session'[c] \in 1..Len(User)
                  /\ SuccessfulLogin(c, session'[c])
               \/ /\ session[c] # Anonymous
                  /\ session'[c] = Anonymous
                  /\ logout(c)
         /\ (session[c] # Anonymous /\ logout(c)) => session'[c] = Anonymous
      ]_vars

\* a login has just authenticated a session
C7_Witness ==
    /\ response.route = "login" /\ response.status = "redirect"
    /\ session[response.client] # Anonymous

\* the table holds a row made from the credentials of form f
StoredFor(f) == \E i \in 1..Len(User) : Matches(i, f)

\* C8: a register of a username that is not in the table creates the user and
\* redirects to login; from then on, whatever else happens, the row stays, and a
\* login with the same username and password authenticates the session as that user.
C8_RegisterThenLogin ==
    [][/\ inflight' # inflight
          => \A req \in inflight :
                (~NameTaken(req.form.username)
                    /\ register_commit(req.client, req.form))
                => /\ StoredFor(req.form)'
                   /\ response' = Redirect(req.client, "register", "login")
       /\ User' # User
          => \A f \in ValidCredentialForms : StoredFor(f) => StoredFor(f)'
       /\ response'.route = "login"
          => \A c \in Clients, f \in ValidCredentialForms :
                (StoredFor(f) /\ login(c, "POST", f))
                => /\ session'[c] \in 1..Len(User)
                   /\ User[session'[c]].username = f.username
                   /\ response' = Redirect(c, "login", "index")
      ]_vars

\* a user who registered, logged in and added a row has logged in again
C8_Witness ==
    /\ response.route = "login" /\ response.status = "redirect"
    /\ session[response.client] # Anonymous
    /\ RowsOf(Transaction, session[response.client]) # {}

NonPositiveForms == {f \in TransactionForms : f.amount <= 0}

\* C9: a POST / whose amount is 0 or negative, of either type, creates no row and
\* leaves the transaction table as it was: no step that changes the table is such
\* a POST.
C9_NonPositiveRejected ==
    [][Transaction' # Transaction
       => \A c \in Clients, f \in NonPositiveForms : ~index(c, "POST", f)
      ]_vars

\* a POST / was rejected for its amount while the user had a row
C9_Witness ==
    /\ IsIndexPage(response)
    /\ response.errors = {"amount"}
    /\ Len(response.transactions) > 0

RECURSIVE SumAmounts(_)
\* the sum of the amounts of the rows with the indices in rows
SumAmounts(rows) ==
    IF rows = {} THEN 0
    ELSE LET i == CHOOSE i \in rows : TRUE
         IN  Transaction[i].amount + SumAmounts(rows \ {i})

RECURSIVE SumMagnitudes(_)
\* the sum of the absolute amounts of the rows with the indices in rows
SumMagnitudes(rows) ==
    IF rows = {} THEN 0
    ELSE LET i == CHOOSE i \in rows : TRUE
         IN  (IF Transaction[i].amount < 0 THEN 0 - Transaction[i].amount
              ELSE Transaction[i].amount) + SumMagnitudes(rows \ {i})

RECURSIVE SumValues(_)
SumValues(dict) ==
    IF dict = <<>> THEN 0 ELSE Head(dict)[2] + SumValues(Tail(dict))

\* C10: for every user's rows, the page's totals are the reference ones: income is
\* the sum of the Income amounts, the expense shown is the magnitude of the sum of
\* the Expense amounts, net is income minus the expense shown, and the category
\* mapping has one entry per category with an Expense, holding the sum of the
\* magnitudes of that category's Expenses; no rows give zeros and no entry.
C10_Aggregates ==
    \A u \in 1..Len(User), c \in Clients :
       LET mine == RowsOf(Transaction, u)
           incomes == {i \in mine : Transaction[i].type = "Gelir"}
           expenses == {i \in mine : Transaction[i].type = "Gider"}
           page == IndexPage(c, u, {})
           dict == ExpenseByCategory(all_transactions(u), <<>>)
       IN  /\ page.total_income = SumAmounts(incomes)
           /\ page.total_expense = abs(SumAmounts(expenses))
           /\ page.net_balance = page.total_income - page.total_expense
           /\ {dict[k][1] : k \in 1..Len(dict)}
                 = {Transaction[i].category : i \in expenses}
           /\ Len(dict) = Cardinality({Transaction[i].category : i \in expenses})
           /\ \A k \in 1..Len(dict) :
                 dict[k][2] = SumMagnitudes({i \in expenses :
                                    Transaction[i].category = dict[k][1]})
           /\ SumValues(dict) = page.total_expense
           /\ page.chart_labels = [k \in 1..Len(dict) |-> dict[k][1]]
           /\ mine = {} => /\ page.total_income = 0
                           /\ page.total_expense = 0
                           /\ page.net_balance = 0
                           /\ dict = <<>>

\* the page of a user with income 1000 and expense 300 in Gida
C10_Witness ==
    /\ IsIndexPage(response)
    /\ Len(response.transactions) = 2
    /\ response.total_income = 1000000
    /\ response.total_expense = 300000
    /\ response.net_balance = 700000
    /\ response.chart_labels = <<"Gida">>
    /\ response.chart_data = <<300000>>
====
